---------------------------- MODULE Spec2Model ----------------------------
(***************************************************************************)
(* Model of the duplicate-detection core of dedup: the file signature      *)
(* (signature.c) and the signature hash table (sig_table.c).               *)
(*                                                                         *)
(* A uint64_t is a sequence of 8 bytes, least significant first, so that   *)
(* every operation wraps modulo 2^64 exactly as the C arithmetic does.     *)
(***************************************************************************)
EXTENDS Integers, Sequences, FiniteSets, TLC

(***************************************************************************)
(* 64-bit unsigned arithmetic (the C operators used by signature.c).       *)
(* Operands are bound once, as x \in {e}, so that an operand expression is *)
(* evaluated once however often the operator reads it.                     *)
(***************************************************************************)
The(S) == CHOOSE r \in S : TRUE

\* the function f with every value computed, once
Tabulate(f) == f @@ <<>>

RECURSIVE XorBits(_, _, _)
XorBits(a, b, n) ==
    IF n = 0 THEN 0
    ELSE ((a + b) % 2) + 2 * XorBits(a \div 2, b \div 2, n - 1)

RECURSIVE Pow2(_)
Pow2(n) == IF n = 0 THEN 1 ELSE 2 * Pow2(n - 1)

RECURSIVE ToBytes(_, _)
ToBytes(n, k) == IF k = 0 THEN <<>> ELSE <<n % 256>> \o ToBytes(n \div 256, k - 1)

\* a word given as a function on 1..8, as the tuple of its bytes
Word(f) == SubSeq(f, 1, 8)

\* a 32-bit word given as a function on 1..4, as the tuple of its bytes
Word4(f) == SubSeq(f, 1, 4)

\* (uint64_t)n for a non-negative n
ToU64(n) == ToBytes(n, 8)

\* a 64-bit literal written most significant byte first, as in the source
Hex64(b) == Word([i \in 1..8 |-> b[9 - i]])

\* x ^ y
Xor64(x, y) ==
    The({ Word([i \in 1..8 |-> XorBits(a[i], b[i], 8)]) : a \in {x}, b \in {y} })

\* x | y
Or64(x, y) ==
    The({ Word([i \in 1..8 |->
                   a[i] + b[i] - ((a[i] + b[i] - XorBits(a[i], b[i], 8)) \div 2)])
          : a \in {x}, b \in {y} })

RECURSIVE AddCarry(_, _, _, _)
AddCarry(x, y, i, c) ==
    IF i > 8 THEN <<>>
    ELSE <<(x[i] + y[i] + c) % 256>>
         \o AddCarry(x, y, i + 1, The({(x[i] + y[i] + c) \div 256}))

\* x + y
Add64(x, y) == The({ AddCarry(a, b, 1, 0) : a \in {x}, b \in {y} })

RECURSIVE ColSum(_, _, _, _)
ColSum(x, y, k, i) ==
    IF i > k THEN 0 ELSE x[i] * y[k + 1 - i] + ColSum(x, y, k, i + 1)

RECURSIVE MulCarry(_, _, _, _)
MulCarry(x, y, k, c) ==
    IF k > 8 THEN <<>>
    ELSE The({ <<s % 256>> \o MulCarry(x, y, k + 1, s \div 256)
               : s \in {c + ColSum(x, y, k, 1)} })

\* x * y
Mul64(x, y) == The({ MulCarry(a, b, 1, 0) : a \in {x}, b \in {y} })

\* x >> r, 0 <= r < 64
Shr64(x, r) ==
    The({ Word([i \in 1..8 |->
                   ((IF i + q <= 8 THEN a[i + q] ELSE 0) \div Pow2(s))
                   + (((IF i + q + 1 <= 8 THEN a[i + q + 1] ELSE 0) * Pow2(8 - s)) % 256)])
          : a \in {x}, q \in {r \div 8}, s \in {r % 8} })

\* x << r, 0 <= r < 64
Shl64(x, r) ==
    The({ Word([i \in 1..8 |->
                   (((IF i - q >= 1 THEN a[i - q] ELSE 0) * Pow2(s)) % 256)
                   + ((IF i - q - 1 >= 1 THEN a[i - q - 1] ELSE 0) \div Pow2(8 - s))])
          : a \in {x}, q \in {r \div 8}, s \in {r % 8} })

\* -(int64_t)x
Neg64(x) == Add64(Word([i \in 1..8 |-> 255 - x[i]]), ToU64(1))

\* x % m for a size_t m >= 1
RECURSIVE ModFrom(_, _, _, _)
ModFrom(x, m, i, r) ==
    IF i = 0 THEN r ELSE ModFrom(x, m, i - 1, The({(r * 256 + x[i]) % m}))

Mod64(x, m) == The({ ModFrom(a, m, 8, 0) : a \in {x} })

(***************************************************************************)
(* signature.c: constants, rotl64, xxhash64                                *)
(***************************************************************************)
PRIME64_1 == Hex64(<<\h9E, \h37, \h79, \hB1, \h85, \hEB, \hCA, \h87>>)
PRIME64_2 == Hex64(<<\hC2, \hB2, \hAE, \h3D, \h27, \hD4, \hEB, \h4F>>)
PRIME64_3 == Hex64(<<\h16, \h56, \h67, \hB1, \h9E, \h37, \h79, \hF9>>)
PRIME64_4 == Hex64(<<\h85, \hEB, \hCA, \h77, \hC2, \hB2, \hAE, \h63>>)
PRIME64_5 == Hex64(<<\h27, \hD4, \hEB, \h2F, \h16, \h56, \h67, \hC5>>)
GOLDEN    == Hex64(<<\h9E, \h37, \h79, \hB9, \h7F, \h4A, \h7C, \h15>>)

rotl64(x, r) == The({ Or64(Shl64(a, r), Shr64(a, 64 - r)) : a \in {x} })

\* *(uint64_t*)p, *(uint32_t*)p and *p on a byte buffer, p counted from 0
Load64(buf, p) == Word([i \in 1..8 |-> buf[p + i]])
Load32(buf, p) == Word([i \in 1..8 |-> IF i <= 4 THEN buf[p + i] ELSE 0])
Load8(buf, p)  == Word([i \in 1..8 |-> IF i = 1 THEN buf[p + 1] ELSE 0])

\* one lane update of the 32-byte block loop (lines 42-45)
Round(v, buf, p) ==
    Mul64(rotl64(Add64(v, Mul64(Load64(buf, p), PRIME64_2)), 31), PRIME64_1)

\* one lane folded into h64 (lines 50-53)
MergeRound(h, v) ==
    Add64(Mul64(Xor64(h, Mul64(rotl64(Mul64(v, PRIME64_2), 31), PRIME64_1)),
                PRIME64_1),
          PRIME64_4)

\* n iterations of the do-while loop of lines 41-46, the first at offset p.
\* The iterations are evaluated as two halves, one after the other.
RECURSIVE Stripes(_, _, _, _)
Stripes(buf, p, n, v) ==
    IF n = 1
    THEN <<Round(v[1], buf, p), Round(v[2], buf, p + 8),
           Round(v[3], buf, p + 16), Round(v[4], buf, p + 24)>>
    ELSE The({ Stripes(buf, p + 32 * (n \div 2), n - (n \div 2), w)
               : w \in {Stripes(buf, p, n \div 2, v)} })

\* while (p + 8 <= end), lines 60-65
RECURSIVE Tail8(_, _, _, _)
Tail8(buf, len, p, h) ==
    IF p + 8 <= len
    THEN The({ Tail8(buf, len, p + 8, h2)
               : h2 \in {Add64(Mul64(rotl64(Xor64(h,
                             Mul64(rotl64(Mul64(Load64(buf, p), PRIME64_2), 31),
                                   PRIME64_1)), 27), PRIME64_1), PRIME64_4)} })
    ELSE [p |-> p, h |-> h]

\* if (p + 4 <= end), lines 67-71
Tail4(buf, len, p, h) ==
    IF p + 4 <= len
    THEN [p |-> p + 4,
          h |-> Add64(Mul64(rotl64(Xor64(h, Mul64(Load32(buf, p), PRIME64_1)), 23),
                            PRIME64_2),
                      PRIME64_3)]
    ELSE [p |-> p, h |-> h]

\* while (p < end), lines 73-76
RECURSIVE Tail1(_, _, _, _)
Tail1(buf, len, p, h) ==
    IF p < len
    THEN The({ Tail1(buf, len, p + 1, h2)
               : h2 \in {Mul64(rotl64(Xor64(h, Mul64(Load8(buf, p), PRIME64_5)), 11),
                               PRIME64_1)} })
    ELSE h

\* lines 78-82
Avalanche(h) ==
    The({ Xor64(d, Shr64(d, 32))
          : d \in { Mul64(Xor64(b, Shr64(b, 29)), PRIME64_3)
                    : b \in { Mul64(Xor64(a, Shr64(a, 33)), PRIME64_2) : a \in {h} } } })

\* lines 34-56: h64 before the length is added.  The loop runs while
\* p <= limit = len - 32: len \div 32 times
Lanes(buf, len) ==
    IF len >= 32
    THEN The({ [p |-> 32 * (len \div 32),
                h |-> MergeRound(MergeRound(MergeRound(MergeRound(
                          Add64(Add64(rotl64(v[1], 1), rotl64(v[2], 7)),
                                Add64(rotl64(v[3], 12), rotl64(v[4], 18))),
                          v[1]), v[2]), v[3]), v[4])]
               : v \in {Stripes(buf, 0, len \div 32,
                                <<Add64(PRIME64_1, PRIME64_2), PRIME64_2, ToU64(0),
                                  Neg64(PRIME64_1)>>)} })
    ELSE [p |-> 0, h |-> PRIME64_5]

\* lines 29-85
xxhash64(buf, len) ==
    The({ Avalanche(Tail1(buf, len, t4.p, t4.h))
          : t4 \in { Tail4(buf, len, t8.p, t8.h)
                     : t8 \in { Tail8(buf, len, s.p, Add64(s.h, ToU64(len)))
                                : s \in {Lanes(buf, len)} } } })

(***************************************************************************)
(* signature.h / signature.c: FileSignature, signatures_match,             *)
(* hash_signature.  A FileSignature is                                     *)
(*   [device, size, samples, quick_hash]                                   *)
(* with device and size numbers, samples four int32_t words of 4 bytes     *)
(* each (least significant first) and quick_hash a 64-bit word.            *)
(***************************************************************************)
NULL == 0
\* the null FileSignature* and the null char*, as values of their own kind
NULL_SIG  == [device |-> 0, size |-> 0, quick_hash |-> <<>>, samples |-> <<>>]
NULL_PATH == "(null)"

VARIABLES
    neon,          \* the build: TRUE when __ARM_NEON is defined
    table,         \* the SigTable*: "null", "live" or "freed"
    bucket_count,  \* table->bucket_count
    buckets,       \* table->buckets: 0..bucket_count-1 -> node or NULL
    entry_count,   \* table->entry_count
    entries,       \* the chain nodes, in allocation order: node n is entries[n]
    sigs,          \* the FileSignature objects handed to the table: id -> value
    owned,         \* the signatures whose insertion transferred ownership
    released,      \* the free() calls of free_sig_table, in order
    last,          \* the last call and what it returned
    fault,         \* "none", or the undefined operation the program ran into
    run,           \* the last compute_signature call: its arguments and outcome
    prev,          \* the compute_signature call before it
    submitted,     \* history: the signatures of the calls that met no failure
    inserted,      \* history: the calls that linked an entry, in order
    fmt            \* the last format_with_units call and what it passed to snprintf

\* (uint64_t)sample of an int32_t sample: sign extension
SignExtend(s) ==
    Word([i \in 1..8 |-> IF i <= 4 THEN s[i] ELSE IF s[4] >= 128 THEN 255 ELSE 0])

\* the memcmp of line 187 over sizeof(a), the 8 bytes of a pointer
SamplesEqualScalar_pointer_size(a, b) ==
    \A i \in 1..2 : \A j \in 1..4 : a.samples[i][j] = b.samples[i][j]

\* memcmp(a->samples, b->samples, sizeof(a->samples)) == 0
SamplesEqualScalar(a, b) ==
    \A i \in 1..4 : \A j \in 1..4 : a.samples[i][j] = b.samples[i][j]

\* vceqq_s32 / vand_u32 / vpmin_u32: every 32-bit lane compares equal
SamplesEqualNeon(a, b) ==
    LET AllOnes == <<255, 255, 255, 255>>
        Zero    == <<0, 0, 0, 0>>
        cmp     == [i \in 1..4 |-> IF a.samples[i] = b.samples[i] THEN AllOnes ELSE Zero]
        And(x, y) == IF x = AllOnes /\ y = AllOnes THEN AllOnes ELSE Zero
        tmp     == <<And(cmp[1], cmp[3]), And(cmp[2], cmp[4])>>
        Min(x, y) == IF x = Zero \/ y = Zero THEN Zero ELSE AllOnes
    IN  Min(tmp[1], tmp[2]) = AllOnes

\* signatures_match without the comparison of line 174
signatures_match_build_drops_hash(withNeon, a, b) ==
    IF a = NULL_SIG \/ b = NULL_SIG THEN FALSE
    ELSE IF a.device # b.device THEN FALSE
    ELSE IF a.size # b.size THEN FALSE
    ELSE IF withNeon THEN SamplesEqualNeon(a, b) ELSE SamplesEqualScalar(a, b)

\* lines 166-189, in the build with (TRUE) or without (FALSE) __ARM_NEON
signatures_match_build(withNeon, a, b) ==
    IF a = NULL_SIG \/ b = NULL_SIG THEN FALSE
    ELSE IF a.device # b.device THEN FALSE
    ELSE IF a.size # b.size THEN FALSE
    ELSE IF a.quick_hash # b.quick_hash THEN FALSE
    ELSE IF withNeon THEN SamplesEqualNeon(a, b) ELSE SamplesEqualScalar(a, b)

signatures_match(a, b) == signatures_match_build(neon, a, b)

\* lines 193-195, common to both builds
HashFields(sig) ==
    Xor64(Xor64(ToU64(sig.size), Add64(ToU64(sig.device), GOLDEN)),
          Add64(sig.quick_hash, GOLDEN))

\* lines 205-208
RECURSIVE HashSamplesScalar(_, _, _)
HashSamplesScalar(sig, i, h) ==
    IF i > 4 THEN h
    ELSE The({ HashSamplesScalar(sig, i + 1, h2)
               : h2 \in {rotl64(Xor64(h, Mul64(SignExtend(sig.samples[i]), PRIME64_1)),
                                27)} })

\* lines 199-203: the samples as two 64-bit lanes
HashSamplesNeon(sig, h) ==
    Xor64(Xor64(h, sig.samples[1] \o sig.samples[2]), sig.samples[3] \o sig.samples[4])

\* lines 191-212, in the build with (TRUE) or without (FALSE) __ARM_NEON
hash_signature_build(withNeon, sig) ==
    The({ IF withNeon THEN HashSamplesNeon(sig, h) ELSE HashSamplesScalar(sig, 1, h)
          : h \in {HashFields(sig)} })

(***************************************************************************)
(* signature.c: compute_signature.                                         *)
(*                                                                         *)
(* A file is [len, pokes]: len bytes, the byte at offset o being pokes[o]  *)
(* where pokes is defined and Fill(o) elsewhere.  The environment decides  *)
(* whether calloc, open and malloc succeed and what each pread returns:    *)
(* -1, the bytes the file has at the offset (at most count), or a short    *)
(* count.  The size argument is the length the caller found by stat.       *)
(***************************************************************************)
Fill(o) == (o * 7 + 3) % 251

ByteAt(f, o) == IF o \in DOMAIN f.pokes THEN f.pokes[o] ELSE Fill(o)

\* the n bytes of f from offset off
Read(f, off, n) == [i \in 1..n |-> ByteAt(f, off + i - 1)]

Base(len) == [len |-> len, pokes |-> <<>>]
Poke(f, o, b) == [f EXCEPT !.pokes = (o :> b) @@ f.pokes]

FileBig       == Base(10000)
\* FileBig with another byte outside the four samples and the hashed prefix
FileBigMiddle == Poke(FileBig, 5000, 255)
\* FileBig with another byte in the hashed prefix
FileBigPrefix == Poke(FileBig, 100, 255)
\* FileBig with another byte in the third sample, outside the hashed prefix
FileBigSample == Poke(FileBig, 6667, 255)
FileSmall     == Base(40)
FileSmallTail == Poke(FileSmall, 39, 255)
FileTiny      == Base(5)
\* the shortest file, and the longest, that the third window does not fit in
FileFour      == Base(4)
FileNine      == Base(9)
\* the shortest file all four windows fit in
FileTen       == Base(10)
FileEmpty     == Base(0)

Files   == {FileBig, FileBigMiddle, FileBigPrefix, FileBigSample,
            FileSmall, FileSmallTail, FileTiny, FileFour, FileNine, FileTen, FileEmpty}
Devices == {1, 2}

Min(a, b) == IF a < b THEN a ELSE b

\* the bytes f has for a read of count bytes at offset
Avail(f, count, offset) == IF f.len > offset THEN Min(count, f.len - offset) ELSE 0

\* what pread(fd, buf, count, offset) may return: an error, a short count or
\* the bytes the file has
PreadResults(f, count, offset) ==
    {-1, Avail(f, count, offset) \div 2, Avail(f, count, offset)}

\* the positions of lines 103-108 with the last window starting at size - 3
Positions_end_off_by_one(size) ==
    <<0, size \div 3, (size * 2) \div 3, IF size > 4 THEN size - 3 ELSE 0>>

\* lines 103-108
Positions(size) ==
    <<0, size \div 3, (size * 2) \div 3, IF size > 4 THEN size - 4 ELSE 0>>

\* line 138
HashSize(size) == IF size < 4096 THEN size ELSE 4096

\* buf after pread(fd, buf, hash_size, 0) returned n: the first n bytes of f
Buf(f, n) ==
    [len |-> n, pokes |-> [o \in {x \in DOMAIN f.pokes : x < n} |-> f.pokes[o]]]

\* xxhash64(buf, n) for every buffer of the model, computed once
QuickHashOf ==
    Tabulate([b \in UNION {{Buf(f, n) : n \in PreadResults(f, HashSize(f.len), 0) \ {-1}}
                           : f \in Files} |->
                 xxhash64(Read(b, 0, b.len), b.len)])

NoRead == -2

\* what one call leaves behind: the value returned (NULL_SIG for NULL), the
\* return statement reached, what the sample reads and the hash read
\* returned, and the state of the descriptor and of the two allocations
Outcome(ret, exit, reads, n, fd, sig, buf) ==
    [ret |-> ret, exit |-> exit, reads |-> reads, n |-> n, fd |-> fd, sig |-> sig,
     buf |-> buf]

\* lines 137-159
HashWindow(hashes, f, device, size, samples, reads) ==
    UNION { IF ~bufOk
            THEN {Outcome(NULL_SIG, "malloc", reads, NoRead, "closed", "freed", "none")}
            ELSE { IF n < 0
                   THEN Outcome(NULL_SIG, "pread", reads, n, "closed", "freed", "freed")
                   ELSE Outcome([device |-> device, size |-> size, samples |-> samples,
                                 quick_hash |-> hashes[Buf(f, n)]],
                                "return", reads, n, "closed", "live", "freed")
                   : n \in PreadResults(f, HashSize(size), 0) }
            : bufOk \in BOOLEAN }

\* the test of lines 129 and 115 catching only the error return
SampleOk_error_only(r) == r >= 0

\* lines 129 and 115: pread(...) != 4 fails the call
SampleOk(r) == r = 4

\* sig->samples[i] after pread returned r: the r bytes read, in the zeroes
\* calloc left (line 92)
SampleAfter(f, offset, r) ==
    Word4([j \in 1..4 |-> IF j <= r THEN ByteAt(f, offset + j - 1) ELSE 0])

\* lines 128-134 (and 114-120): the reads from sample i on
RECURSIVE SampleReads(_, _, _, _, _, _, _)
SampleReads(hashes, f, device, size, i, samples, reads) ==
    IF i > 4 THEN HashWindow(hashes, f, device, size, samples, reads)
    ELSE UNION { IF ~SampleOk(r)
                 THEN {Outcome(NULL_SIG, "sample", Append(reads, r), NoRead,
                               "closed", "freed", "none")}
                 ELSE SampleReads(hashes, f, device, size, i + 1,
                                  Append(samples, SampleAfter(f, Positions(size)[i], r)),
                                  Append(reads, r))
                 : r \in PreadResults(f, 4, Positions(size)[i]) }

\* lines 87-160: every outcome the environment allows.  hashes[b] is
\* xxhash64 of buffer b
compute_signature(hashes, f, device, size) ==
    UNION { IF ~sigOk
            THEN {Outcome(NULL_SIG, "calloc", <<>>, NoRead, "none", "none", "none")}
            ELSE UNION { IF ~openOk
                         THEN {Outcome(NULL_SIG, "open", <<>>, NoRead, "none", "freed",
                                       "none")}
                         ELSE SampleReads(hashes, f, device, size, 1, <<>>, <<>>)
                         : openOk \in BOOLEAN }
            : sigOk \in BOOLEAN }

\* the outcomes of every call of the model, computed once
OutcomesOf ==
    The({ Tabulate([f \in Files |->
              Tabulate([device \in Devices |->
                  compute_signature(hashes, f, device, f.len)])])
          : hashes \in {QuickHashOf} })

NoRun == [file |-> FileEmpty, device |-> 0, size |-> 0,
          out |-> Outcome(NULL_SIG, "none", <<>>, NoRead, "none", "none", "none")]

ComputeSignature(f, device) ==
    /\ \E out \in OutcomesOf[f][device] :
           run' = [file |-> f, device |-> device, size |-> f.len, out |-> out]
    /\ prev' = run
    /\ UNCHANGED <<neon, table, bucket_count, buckets, entry_count, entries, sigs,
                   owned, released, last, fault, submitted, inserted, fmt>>

(***************************************************************************)
(* Inputs of the table model.                                              *)
(***************************************************************************)
MaxBuckets == 2
MaxCloneId == 1

Sample(b0, b3) == <<b0, 0, 0, b3>>
QuickHashA == xxhash64(<<>>, 0)
QuickHashB == xxhash64(<<97>>, 1)

SigA == [device |-> 1, size |-> 12, quick_hash |-> QuickHashA,
         samples |-> <<Sample(1, 0), Sample(2, 0), Sample(3, 0), Sample(4, 0)>>]
\* not matching SigA, with the same hash_signature: 12 ^ (1 + G) = 13 ^ (2 + G)
SigB == [SigA EXCEPT !.device = 2, !.size = 13]
\* SigA with another prefix hash
SigC == [SigA EXCEPT !.quick_hash = QuickHashB]

\* the signatures submitted to the table
SigValues == {SigA, SigB, SigC}
Paths     == {"a", "b"}
CloneIds  == 0..MaxCloneId

\* the signatures the hash and the comparison are checked on: every
\* combination of two values per field, negative samples included
SigDomain ==
    { [device |-> d, size |-> z, quick_hash |-> q, samples |-> <<Sample(1, 0), s2, s3, s4>>]
      : d \in {1, 2}, z \in {12, 13}, q \in {QuickHashA, QuickHashB},
        s2 \in {Sample(2, 0), Sample(2, 128)}, s3 \in {Sample(3, 0), Sample(2, 0)},
        s4 \in {Sample(4, 0), Sample(4, 255)} }

\* hash_signature of every signature of SigDomain, computed once per build
HashOf ==
    Tabulate([withNeon \in BOOLEAN |->
                 Tabulate([sig \in SigDomain |-> hash_signature_build(withNeon, sig)])])

hash_signature(sig) == HashOf[neon][sig]

(***************************************************************************)
(* sig_table.c                                                             *)
(***************************************************************************)
\* the chain starting at node e, head first
RECURSIVE Chain(_)
Chain(e) == IF e = NULL THEN <<>> ELSE <<e>> \o Chain(entries[e].next)

\* lines 52-53
BucketIndex(sig) == Mod64(hash_signature(sig), bucket_count)

\* the walk of lines 56-63 without the comparison of line 58
FindMatch_returns_head(e, sig) == e

\* lines 56-63: the first entry of the chain whose signature matches, or NULL
RECURSIVE FindMatch(_, _)
FindMatch(e, sig) ==
    IF e = NULL THEN NULL
    ELSE IF signatures_match(sigs[entries[e].signature], sig) THEN e
    ELSE FindMatch(entries[e].next, sig)

\* lines 100-102
sig_table_size == IF table # "null" THEN entry_count ELSE 0

\* the walk of lines 89-94 stopping after the head of the chain
ChainHasCloneId_head_only(e, clone_id) ==
    IF e = NULL THEN FALSE ELSE entries[e].clone_id = clone_id

\* lines 89-94
RECURSIVE ChainHasCloneId(_, _)
ChainHasCloneId(e, clone_id) ==
    IF e = NULL THEN FALSE
    ELSE IF entries[e].clone_id = clone_id THEN TRUE
    ELSE ChainHasCloneId(entries[e].next, clone_id)

\* lines 82-98
sig_table_has_clone_id(clone_id) ==
    IF table = "null" \/ clone_id = 0 THEN FALSE
    ELSE \E i \in 0..(bucket_count - 1) : ChainHasCloneId(buckets[i], clone_id)

\* the loop of lines 34-40 leaving after its first iteration
FreeChain_head_only(e) ==
    IF e = NULL THEN <<>>
    ELSE <<[kind |-> "signature", id |-> entries[e].signature]>>
         \o (IF entries[e].path = NULL_PATH THEN <<>> ELSE <<[kind |-> "path", id |-> e]>>)
         \o <<[kind |-> "entry", id |-> e]>>

\* lines 34-40: the free() calls made for the chain starting at e
RECURSIVE FreeChain(_)
FreeChain(e) ==
    IF e = NULL THEN <<>>
    ELSE <<[kind |-> "signature", id |-> entries[e].signature]>>
         \o (IF entries[e].path = NULL_PATH THEN <<>> ELSE <<[kind |-> "path", id |-> e]>>)
         \o <<[kind |-> "entry", id |-> e]>>
         \o FreeChain(entries[e].next)

\* lines 32-41
RECURSIVE FreeBuckets(_)
FreeBuckets(i) ==
    IF i >= bucket_count THEN <<>> ELSE FreeChain(buckets[i]) \o FreeBuckets(i + 1)

\* the node without the assignment of line 74
NewEntry_unlinked(sig, path, clone_id, next) ==
    [signature |-> sig, path |-> path, clone_id |-> clone_id, next |-> NULL]

\* lines 66-74: the node calloc returned, with its four fields set
NewEntry(sig, path, clone_id, next) ==
    [signature |-> sig, path |-> path, clone_id |-> clone_id, next |-> next]

Call(op, arg, bucket, outcome, ret) ==
    [op |-> op, arg |-> arg, bucket |-> bucket, outcome |-> outcome, ret |-> ret]

tableVars == <<table, bucket_count, buckets, entry_count, entries>>

\* lines 9-25.  calloc(0, ...) may return NULL or a pointer: bucketsOk either way
new_sig_table(count, tableOk, bucketsOk) ==
    /\ fault = "none"
    /\ table = "null"
    /\ IF tableOk /\ bucketsOk
       THEN /\ table' = "live"
            /\ bucket_count' = count
            /\ buckets' = [i \in 0..(count - 1) |-> NULL]
            /\ entry_count' = 0
            /\ last' = Call("new", count, NULL, "Created", 1)
            /\ UNCHANGED entries
       ELSE /\ last' = Call("new", count, NULL, "AllocationFailure", NULL)
            /\ UNCHANGED tableVars
    /\ UNCHANGED <<neon, sigs, owned, released, fault, run, prev, submitted, inserted, fmt>>

\* the signatures still allocated once the caller has disposed of the one it
\* kept from its last call
Kept == [i \in 1..Cardinality(owned) |-> sigs[i]]

\* lines 47-80.  sig is the value of the caller's FileSignature (NULL_SIG for
\* a null pointer).  The object itself is sigs[p], p the slot after those of
\* the signatures the table owns: a caller that keeps ownership disposes of
\* its signature before its next call.  calloc and strdup succeed or fail
\* where they are called.
sig_table_insert(sig, path, clone_id) ==
    /\ fault = "none"
    /\ table # "freed"
    /\ IF table = "null" \/ sig = NULL_SIG \/ path = NULL_PATH
       THEN /\ last' = Call("insert", NULL, NULL, "Rejected", NULL)
            /\ sigs' = Kept
            /\ UNCHANGED <<tableVars, owned, fault, submitted, inserted>>
       ELSE IF bucket_count = 0
       THEN /\ fault' = "hash % 0"
            /\ last' = Call("insert", NULL, NULL, "Undefined", NULL)
            /\ sigs' = Kept
            /\ UNCHANGED <<tableVars, owned, submitted, inserted>>
       ELSE \E bucket_idx \in {BucketIndex(sig)}, p \in {Cardinality(owned) + 1} :
            \E entry \in {FindMatch(buckets[bucket_idx], sig)} :
              /\ sigs' = [i \in 1..p |-> IF i = p THEN sig ELSE sigs[i]]
              /\ IF entry # NULL
                 THEN /\ last' = Call("insert", p, bucket_idx, "Match", entry)
                      /\ submitted' = submitted \cup {sig}
                      /\ UNCHANGED <<tableVars, owned, fault, inserted>>
                 ELSE \E entryOk \in BOOLEAN :
                      IF ~entryOk
                      THEN /\ last' = Call("insert", p, bucket_idx, "Error", NULL)
                           /\ UNCHANGED <<tableVars, owned, fault, submitted, inserted>>
                      ELSE \E strdupOk \in BOOLEAN :
                           /\ entries' = Append(entries,
                                  NewEntry(p, IF strdupOk THEN path ELSE NULL_PATH,
                                           clone_id, buckets[bucket_idx]))
                           /\ buckets' = [buckets EXCEPT ![bucket_idx] = Len(entries) + 1]
                           /\ entry_count' = entry_count + 1
                           /\ owned' = owned \cup {p}
                           /\ last' = Call("insert", p, bucket_idx, "Inserted", NULL)
                           /\ submitted' = submitted \cup {sig}
                           /\ inserted' = Append(inserted,
                                  [sig |-> sig, ptr |-> p, path |-> path,
                                   clone_id |-> clone_id, entry |-> Len(entries) + 1,
                                   bucket |-> bucket_idx, ret |-> NULL])
                           /\ UNCHANGED <<table, bucket_count, fault>>
    /\ UNCHANGED <<neon, released, run, prev, fmt>>

HasCloneId(clone_id) ==
    /\ fault = "none"
    /\ table # "freed"
    /\ last' = Call("has_clone_id", clone_id, NULL, "Answered",
                    sig_table_has_clone_id(clone_id))
    /\ sigs' = Kept
    /\ UNCHANGED <<neon, tableVars, owned, released, fault, run, prev, submitted, inserted, fmt>>

\* lines 27-45
free_sig_table ==
    /\ fault = "none"
    /\ table = "live"
    /\ released' = FreeBuckets(0) \o <<[kind |-> "buckets", id |-> 1],
                                       [kind |-> "table", id |-> 1]>>
    /\ table' = "freed"
    /\ last' = Call("free", NULL, NULL, "Freed", NULL)
    /\ UNCHANGED <<neon, bucket_count, buckets, entry_count, entries, sigs, owned, fault,
                   run, prev, submitted, inserted, fmt>>

(***************************************************************************)
(* output_format.c: the unit tables and format_with_units.                 *)
(*                                                                         *)
(* A double that holds a whole number is written as that number, in the    *)
(* 8 bytes of a uint64_t.  Element k of a C array is element k + 1 of the  *)
(* sequence that models it.                                                *)
(***************************************************************************)
\* the null const char*
NULL_NAME == NULL_PATH

\* x >= y
RECURSIVE GeqFrom(_, _, _)
GeqFrom(x, y, i) ==
    IF i = 0 THEN TRUE
    ELSE IF x[i] # y[i] THEN x[i] > y[i]
    ELSE GeqFrom(x, y, i - 1)

Geq64(x, y) == The({ GeqFrom(a, b, 8) : a \in {x}, b \in {y} })

\* the number of significant bits of x
RECURSIVE BitLen(_)
BitLen(x) == IF x = ToU64(0) THEN 0 ELSE 1 + BitLen(Shr64(x, 1))

\* (double)x: x when it has at most 53 significant bits, else the nearest
\* number with 53 significant bits, ties to the even one.  The result fits
\* in 64 bits for x < 2^64 - 1024.
ToDouble(x) ==
    The({ IF n <= 53 THEN a
          ELSE The({ Shl64(IF Geq64(rem, half) /\ (rem # half \/ q[1] % 2 = 1)
                           THEN Add64(q, ToU64(1)) ELSE q, n - 53)
                     : q \in {Shr64(a, n - 53)},
                       rem \in {Add64(a, Neg64(Shl64(Shr64(a, n - 53), n - 53)))},
                       half \in {Shl64(ToU64(1), n - 54)} })
          : a \in {x}, n \in {BitLen(x)} })

\* b^n in 64 bits
RECURSIVE Pow64(_, _)
Pow64(b, n) == IF n = 0 THEN ToU64(1) ELSE Mul64(ToU64(b), Pow64(b, n - 1))

\* lines 15-19
UnitInfo(short_name, long_name, divisor) ==
    [short_name |-> short_name, long_name |-> long_name, divisor |-> divisor]

\* lines 22-30
si_units ==
    <<UnitInfo("bytes", "bytes", ToU64(1)),
      UnitInfo("kB", "kilobytes", Pow64(1000, 1)),
      UnitInfo("MB", "megabytes", Pow64(1000, 2)),
      UnitInfo("GB", "gigabytes", Pow64(1000, 3)),
      UnitInfo("TB", "terabytes", Pow64(1000, 4)),
      UnitInfo("PB", "petabytes", Pow64(1000, 5)),
      UnitInfo(NULL_NAME, NULL_NAME, ToU64(0))>>

\* lines 33-41
binary_units ==
    <<UnitInfo("bytes", "bytes", ToU64(1)),
      UnitInfo("KiB", "kibibytes", Pow64(1024, 1)),
      UnitInfo("MiB", "mebibytes", Pow64(1024, 2)),
      UnitInfo("GiB", "gibibytes", Pow64(1024, 3)),
      UnitInfo("TiB", "tebibytes", Pow64(1024, 4)),
      UnitInfo("PiB", "pebibytes", Pow64(1024, 5)),
      UnitInfo(NULL_NAME, NULL_NAME, ToU64(0))>>

\* lines 44-51
traditional_units ==
    <<UnitInfo("B", "bytes", ToU64(1)),
      UnitInfo("K", "kilobytes", Pow64(1000, 1)),
      UnitInfo("M", "megabytes", Pow64(1000, 2)),
      UnitInfo("G", "gigabytes", Pow64(1000, 3)),
      UnitInfo("T", "terabytes", Pow64(1000, 4)),
      UnitInfo(NULL_NAME, NULL_NAME, ToU64(0))>>

UnitTables == {si_units, binary_units, traditional_units}

\* lines 84-86: unit is the index of *unit in units; unit[1] is the element
\* after it
RECURSIVE FindUnit(_, _, _)
FindUnit(value, units, unit) ==
    IF units[unit + 1].short_name # NULL_NAME
       /\ Geq64(value, ToDouble(units[unit + 2].divisor))
    THEN FindUnit(value, units, unit + 1)
    ELSE unit

\* lines 79-110: the unit the loop stops on and the arguments of the
\* snprintf call made: the format, the number printed (bytes, or the
\* dividend and the divisor of the double division of line 99) and the name
format_with_units(bytes, units, use_long_names) ==
    The({ [unit     |-> unit,
           format   |-> IF unit = 0 THEN "%llu %s"
                        ELSE IF use_long_names = 1 THEN "%.1f %s" ELSE "%.1f%s",
           number   |-> IF unit = 0 THEN bytes ELSE ToDouble(bytes),
           divided  |-> unit # 0,
           divisor  |-> IF unit = 0 THEN <<>> ELSE ToDouble(units[unit + 1].divisor),
           name     |-> IF use_long_names = 1 THEN units[unit + 1].long_name
                        ELSE units[unit + 1].short_name]
          : unit \in {FindUnit(ToDouble(bytes), units, 0)} })

\* the byte counts formatted: 0, 1, the numbers around every divisor, one
\* that (double) rounds down and one that it rounds up
MaxUnitPower == 5

Around(d) == {Add64(d, Neg64(ToU64(1))), d, Add64(d, ToU64(1))}

ByteCounts ==
    {ToU64(0), ToU64(1), Add64(Pow64(2, 53), ToU64(1)), Add64(Pow64(2, 53), ToU64(3))}
    \cup UNION {Around(Pow64(1000, k)) \cup Around(Pow64(1024, k)) : k \in 1..MaxUnitPower}

\* format_with_units of every call of the model, computed once
FormatOf ==
    Tabulate([units \in UnitTables |->
        Tabulate([bytes \in ByteCounts |->
            Tabulate([use_long_names \in {0, 1} |->
                format_with_units(bytes, units, use_long_names)])])])

NoFormat == [called |-> FALSE]

\* one call of format_with_units, as format_bytes makes it (lines 124-155,
\* 210).  Passing a null pointer for %s is undefined: the call prints
\* "(null)" or crashes.
FormatWithUnits(bytes, units, use_long_names) ==
    /\ \E out \in {FormatOf[units][bytes][use_long_names]} :
       \E printed \in (IF out.name = NULL_NAME THEN {"(null)", "crash"} ELSE {out.name}) :
           fmt' = [called |-> TRUE, bytes |-> bytes, units |-> units,
                   use_long_names |-> use_long_names, out |-> out, printed |-> printed]
    /\ UNCHANGED <<neon, table, bucket_count, buckets, entry_count, entries, sigs,
                   owned, released, last, fault, run, prev, submitted, inserted>>

vars == <<neon, table, bucket_count, buckets, entry_count, entries, sigs, owned,
          released, last, fault, run, prev, submitted, inserted, fmt>>

Init ==
    /\ neon \in BOOLEAN
    /\ table = "null"
    /\ bucket_count = 0
    /\ buckets = <<>>
    /\ entry_count = 0
    /\ entries = <<>>
    /\ sigs = <<>>
    /\ owned = {}
    /\ released = <<>>
    /\ last = Call("none", NULL, NULL, "None", NULL)
    /\ fault = "none"
    /\ run = NoRun
    /\ prev = NoRun
    /\ submitted = {}
    /\ inserted = <<>>
    /\ fmt = NoFormat

Next ==
    \/ \E count \in 0..MaxBuckets, tableOk \in BOOLEAN, bucketsOk \in BOOLEAN :
           new_sig_table(count, tableOk, bucketsOk)
    \/ \E sig \in SigValues \cup {NULL_SIG}, path \in Paths \cup {NULL_PATH},
          clone_id \in CloneIds :
           sig_table_insert(sig, path, clone_id)
    \/ \E clone_id \in CloneIds : HasCloneId(clone_id)
    \/ free_sig_table

Spec == Init /\ [][Next]_vars

NextEngine == \E f \in Files, device \in Devices : ComputeSignature(f, device)

\* compute_signature makes the same four reads and the same checks in both
\* builds (lines 114-120 and 128-134), so one build is explored
InitEngine == Init /\ neon = FALSE

SpecEngine == InitEngine /\ [][NextEngine]_vars

(***************************************************************************)
(* Properties of the table                                                 *)
(***************************************************************************)
Range(f) == {f[i] : i \in DOMAIN f}

\* the nodes reachable from the bucket heads
Linked == UNION {Range(Chain(buckets[i])) : i \in 0..(bucket_count - 1)}

\* the signature value node e holds
SigOf(e) == sigs[entries[e].signature]

InsertDone == last.op = "insert" /\ last.outcome \in {"Match", "Inserted", "Error"}

\* C1: while the table is live, sig_table_size is the number of distinct
\* signature values submitted by the calls that met no allocation failure, no
\* two linked entries hold equal signatures, and an insert call returns a
\* linked entry exactly when an entry with an equal signature was linked
\* before the call (entries are never unlinked, so: is linked and was not
\* created by this call).
C1_IndexCorrect ==
    table = "live" =>
        /\ sig_table_size = Cardinality(submitted)
        /\ \A e1 \in Linked : \A e2 \in Linked : e1 # e2 => SigOf(e1) # SigOf(e2)
        /\ InsertDone =>
              ((last.ret # NULL /\ last.ret \in Linked)
                 <=> \E e \in Linked : /\ entries[e].signature # last.arg
                                       /\ SigOf(e) = sigs[last.arg])

\* three distinct signatures are indexed, two of them with the same hash, and
\* one has been submitted again
C1_Witness ==
    /\ table = "live"
    /\ entry_count = 3
    /\ last.op = "insert" /\ last.outcome = "Match"

\* C2: a call whose outcome is Match changes nothing of the table (count,
\* buckets, chains, the stored signature, path and clone id of every entry),
\* returns the entry of the one earlier insertion of an equal signature, and
\* the table takes no reference to the signature of the call.
C2_MatchFrame ==
    [][(last'.op = "insert" /\ last'.outcome = "Match") =>
          /\ UNCHANGED <<table, bucket_count, buckets, entry_count, entries, owned>>
          /\ \A e \in 1..Len(entries) : sigs'[entries[e].signature] = SigOf(e)
          /\ \E i \in 1..Len(inserted) :
                /\ inserted[i].sig = sigs'[last'.arg]
                /\ \A j \in 1..Len(inserted) : inserted[j].sig = inserted[i].sig => j = i
                /\ last'.ret = inserted[i].entry
                /\ last'.ret \in Linked
          /\ last'.arg \notin owned'
          /\ \A e \in 1..Len(entries') : entries'[e].signature # last'.arg
      ]_vars

\* a signature was submitted again under another path and clone id than the
\* stored ones, and the entry of the first insertion came back
C2_Witness ==
    /\ last.op = "insert" /\ last.outcome = "Match"
    /\ entry_count >= 2
    /\ entries[last.ret].path = "a"
    /\ entries[last.ret].clone_id = 0
    /\ \E e \in Linked : entries[e].path = "b" /\ entries[e].clone_id = 1

\* C3: a call that finds no match and fails to allocate its node returns a
\* value that no call with outcome Inserted has returned and that is no entry
\* (the value of a Match), and leaves the table as it was.
C3_ErrorDistinct ==
    [][(last'.op = "insert" /\ last'.outcome = "Error") =>
          /\ \A i \in 1..Len(inserted) : inserted[i].ret # last'.ret
          /\ last'.ret \notin 1..Len(entries)
          /\ UNCHANGED <<table, bucket_count, buckets, entry_count, entries, owned>>
      ]_vars

\* hash_signature of the signature of node e, mod bucket_count
BucketOf(e) == Mod64(hash_signature(SigOf(e)), bucket_count)

\* signatures_match(a, b) => hash_signature(a) == hash_signature(b), for every
\* pair of SigDomain, in both builds
HashConsistent ==
    \A withNeon \in BOOLEAN : \A a \in SigDomain : \A b \in SigDomain :
        signatures_match_build(withNeon, a, b) => HashOf[withNeon][a] = HashOf[withNeon][b]

\* C4: matching signatures have equal hashes; every linked entry is in the
\* chain of bucket hash_signature(its signature) mod bucket_count; and the
\* chain an insert call walked holds every entry whose signature equals the
\* one submitted.
C4_HashEqualityConsistent ==
    /\ HashConsistent
    /\ table = "live" =>
          /\ \A e \in Linked : e \in Range(Chain(buckets[BucketOf(e)]))
          /\ InsertDone =>
                \A e \in Linked : SigOf(e) = sigs[last.arg] =>
                    e \in Range(Chain(buckets[last.bucket]))

\* both buckets are in use, one chain holds two entries of the same hash, and
\* the last call found the signature it looked up
C4_Witness ==
    /\ table = "live" /\ bucket_count = 2
    /\ \E i \in 0..1 : Len(Chain(buckets[i])) = 2 /\ Len(Chain(buckets[1 - i])) = 1
    /\ last.op = "insert" /\ last.outcome = "Match"
    /\ \E a \in SigDomain : \E b \in SigDomain :
          a # b /\ signatures_match(a, a) /\ ~signatures_match(a, b)
                /\ hash_signature(a) = hash_signature(b)

\* C5: sig_table_has_clone_id(id) is true exactly when id is not 0 and an
\* entry linked by an earlier insertion was stored with clone id id; the
\* clone ids of the calls that matched or failed are stored nowhere.
C5_HasCloneId ==
    /\ table = "live" =>
          \A id \in CloneIds :
              sig_table_has_clone_id(id)
                <=> (id # 0 /\ \E i \in 1..Len(inserted) : inserted[i].clone_id = id)
    /\ (last.op = "has_clone_id" /\ table = "live") =>
          (last.ret <=> (last.arg # 0 /\ \E e \in Linked : entries[e].clone_id = last.arg))
    /\ \A i \in 1..Len(inserted) : entries[inserted[i].entry].clone_id = inserted[i].clone_id

\* clone id 1 is stored behind the head of a chain whose head was stored with
\* clone id 0; the query for 0 was answered false and the one for 1 is true
C5_Witness ==
    /\ table = "live"
    /\ \E i \in 0..(bucket_count - 1) :
          /\ Len(Chain(buckets[i])) = 2
          /\ entries[Chain(buckets[i])[1]].clone_id = 0
          /\ entries[Chain(buckets[i])[2]].clone_id = 1
    /\ sig_table_has_clone_id(1)
    /\ last.op = "has_clone_id"
    /\ last.arg = 0
    /\ last.ret = FALSE

Count(seq, x) == Cardinality({k \in DOMAIN seq : seq[k] = x})

\* the free() calls teardown owes: per insertion the signature, the path copy
\* if strdup made one and the node; the bucket array; the table
Owed ==
    UNION {{[kind |-> "signature", id |-> inserted[i].ptr],
            [kind |-> "entry", id |-> inserted[i].entry]}
           \cup (IF entries[inserted[i].entry].path = NULL_PATH THEN {}
                 ELSE {[kind |-> "path", id |-> inserted[i].entry]})
           : i \in 1..Len(inserted)}
    \cup {[kind |-> "buckets", id |-> 1], [kind |-> "table", id |-> 1]}

\* C9: the table owns, and its entries reference, exactly the signatures of
\* the calls whose outcome was Inserted -- never the signature of a call
\* whose outcome was Match or Error -- and free_sig_table releases each of
\* them once, with the path copy and the node of its entry, then the bucket
\* array and the table, and nothing else (so only those two when nothing
\* was inserted).
C9_TeardownExact ==
    /\ owned = {inserted[i].ptr : i \in 1..Len(inserted)}
    /\ {entries[e].signature : e \in 1..Len(entries)} = owned
    /\ (InsertDone /\ last.outcome \in {"Match", "Error"}) => last.arg \notin owned
    /\ table = "live" => Linked = 1..Len(entries)
    /\ table = "freed" =>
          /\ \A x \in Owed : Count(released, x) = 1
          /\ Range(released) = Owed
          /\ \A p \in 1..Len(sigs) :
                Count(released, [kind |-> "signature", id |-> p])
                   = IF p \in owned THEN 1 ELSE 0

\* a table holding a chain of two entries and a third one was torn down while
\* the caller still held the signature of a call that matched or failed
C9_Witness ==
    /\ table = "freed"
    /\ Len(inserted) = 3
    /\ bucket_count = 2
    /\ Len(sigs) > Cardinality(owned)
    /\ \E e \in 1..Len(entries) : entries[e].path = NULL_PATH
    /\ \E e \in 1..Len(entries) : entries[e].path # NULL_PATH

\* the entries inserted into bucket b by the first n insertions, latest first
RECURSIVE NewestFirst(_, _)
NewestFirst(b, n) ==
    IF n = 0 THEN <<>>
    ELSE IF inserted[n].bucket = b
         THEN <<inserted[n].entry>> \o NewestFirst(b, n - 1)
         ELSE NewestFirst(b, n - 1)

\* C10: the chain of every bucket is the sequence of the entries inserted
\* into that bucket, the latest first: a later entry precedes an earlier one,
\* the head is the latest, and no insertion has reordered or removed an entry.
C10_MostRecentFirst ==
    table = "live" =>
        \A b \in 0..(bucket_count - 1) :
            Chain(buckets[b]) = NewestFirst(b, Len(inserted))

\* three insertions went into the only bucket of the table
C10_Witness ==
    /\ table = "live"
    /\ bucket_count = 1
    /\ Chain(buckets[0]) = <<3, 2, 1>>

(***************************************************************************)
(* Properties of compute_signature                                         *)
(***************************************************************************)
Returned(r) == r.out.ret # NULL_SIG

\* C6: a signature is returned only after four sample reads that each
\* returned 4, and it holds the four windows of the file; after a failed open
\* or a sample read that did not return 4 the result is NULL, the descriptor
\* (if one was opened) is closed, the signature buffer is freed and no read
\* buffer was allocated.
C6_SampleReadsExact ==
    /\ Returned(run) =>
          /\ Len(run.out.reads) = 4
          /\ \A i \in 1..4 :
                /\ run.out.reads[i] = 4
                /\ run.out.ret.samples[i]
                      = Word4(Read(run.file, Positions(run.size)[i], 4))
    /\ (run.out.exit = "open" \/ \E i \in 1..Len(run.out.reads) : run.out.reads[i] # 4) =>
          /\ ~Returned(run)
          /\ run.out.fd = (IF run.out.exit = "open" THEN "none" ELSE "closed")
          /\ run.out.sig = "freed"
          /\ run.out.buf = "none"

\* the third sample read came back short after two full ones, and the call
\* before it returned a signature
C6_Witness ==
    /\ run.out.exit = "sample"
    /\ run.out.reads = <<4, 4, 2>>
    /\ run.out.ret = NULL_SIG
    /\ Returned(prev)

\* C7: when the read of the hash window fails or returns fewer than
\* min(size, 4096) bytes, compute_signature returns NULL.
C7_ShortHashReadUnavailable ==
    (run.out.n # NoRead /\ run.out.n < HashSize(run.size)) => ~Returned(run)

\* the bytes of f and g at the four sample windows and in the hashed prefix
AgreeOn ==
    Tabulate([f \in Files |-> Tabulate([g \in Files |->
        /\ f.len = g.len
        /\ \A i \in 1..4 : \A j \in 0..3 :
              Positions(f.len)[i] + j < f.len =>
                  ByteAt(f, Positions(f.len)[i] + j) = ByteAt(g, Positions(f.len)[i] + j)
        /\ \A o \in 0..(HashSize(f.len) - 1) : ByteAt(f, o) = ByteAt(g, o)])])

\* calloc, open and malloc succeeded and every read returned the bytes the
\* file has at its offset
Undisturbed(r) ==
    /\ r.out.exit \in {"sample", "return"}
    /\ \A i \in 1..Len(r.out.reads) :
          r.out.reads[i] = Avail(r.file, 4, Positions(r.size)[i])
    /\ r.out.n # NoRead => r.out.n = HashSize(r.size)

\* C8: for two calls with the same device and size on files that agree on
\* the four sample windows and on the first min(size, 4096) bytes: when both
\* return a signature the two signatures match, and when the environment
\* disturbed neither call both return a signature or neither does.
C8_FunctionOfWindows ==
    (/\ prev.out.exit # "none"
     /\ prev.device = run.device
     /\ prev.size = run.size
     /\ AgreeOn[prev.file][run.file]) =>
        /\ (Returned(prev) /\ Returned(run)) => signatures_match(prev.out.ret, run.out.ret)
        /\ (Undisturbed(prev) /\ Undisturbed(run)) => (Returned(prev) <=> Returned(run))

\* C13 as stated: when nothing disturbs a call on a file of at least 4 bytes
\* whose length is the size argument, the four windows lie inside the file,
\* the four sample reads return 4 and a signature is returned.
C13_WindowsInsideFromFour ==
    (run.out.exit # "none" /\ Undisturbed(run) /\ run.size = run.file.len /\ run.size >= 4) =>
        /\ \A i \in 1..4 : Positions(run.size)[i] + 4 <= run.file.len
        /\ run.out.reads = <<4, 4, 4, 4>>
        /\ Returned(run)

\* C13, amended: the same for a file of at least 10 bytes, the least size
\* with (2 * size) \div 3 + 4 <= size.
C13_WindowsInsideFromTen ==
    (run.out.exit # "none" /\ Undisturbed(run) /\ run.size = run.file.len /\ run.size >= 10) =>
        /\ \A i \in 1..4 : Positions(run.size)[i] + 4 <= run.file.len
        /\ run.out.reads = <<4, 4, 4, 4>>
        /\ Returned(run)

\* an undisturbed call on the 10-byte file returned a signature after an
\* undisturbed call on the 9-byte file had returned none
C13_Witness ==
    /\ run.file = FileTen /\ Undisturbed(run) /\ Returned(run)
    /\ prev.file = FileNine /\ prev.out.exit = "sample" /\ Undisturbed(prev)

(***************************************************************************)
(* Properties of the table, continued                                      *)
(***************************************************************************)
\* C11: while the table is live, the entry of every insertion holds a copy of
\* the path passed to the call that inserted it, no linked entry has a null
\* path, and entry_count counts only entries that hold a path.
C11_PathCopied ==
    table = "live" =>
        /\ \A i \in 1..Len(inserted) :
              entries[inserted[i].entry].path = inserted[i].path
        /\ \A e \in Linked : entries[e].path # NULL_PATH
        /\ entry_count = Cardinality({e \in Linked : entries[e].path # NULL_PATH})

\* C12: no call evaluates hash % 0, and the bucket an insert call selected is
\* an index of the bucket array.
C12_BucketInRange ==
    /\ fault = "none"
    /\ (table = "live" /\ InsertDone) => last.bucket \in 0..(bucket_count - 1)

(***************************************************************************)
(* Properties of format_with_units                                         *)
(***************************************************************************)
NextFormat ==
    \E bytes \in ByteCounts, units \in UnitTables, use_long_names \in {0, 1} :
        FormatWithUnits(bytes, units, use_long_names)

SpecFormat == Init /\ [][NextFormat]_vars

\* the indices of the entries of units before its terminator
RealUnits(units) == {k \in 0..(Len(units) - 1) : units[k + 1].short_name # NULL_NAME}

\* C14: the loop stops on an entry before the terminator; the entries up to
\* the one selected are the first and those whose divisor is at most the
\* byte count, so that the last real entry is selected from its divisor on;
\* and the division of line 99 is not by zero.
C14_StopsOnRealUnit ==
    fmt.called =>
        /\ fmt.out.unit \in RealUnits(fmt.units)
        /\ \A k \in RealUnits(fmt.units) :
              k <= fmt.out.unit <=> (k = 0 \/ Geq64(fmt.bytes, fmt.units[k + 1].divisor))
        /\ fmt.out.divided => fmt.out.divisor # ToU64(0)

=============================================================================
